---- MODULE Spec2Model ----
(***************************************************************************)
(* Requested-to-capacity-ratio priority of the scheduler                   *)
(* (pkg/scheduler/algorithm/priorities/requested_to_capacity_ratio.go).    *)
(*                                                                         *)
(* The source file holds two revisions of the package:                     *)
(*   "arrays" (lines 1-178):   FunctionShape is a struct of two parallel   *)
(*                             slices x and y;                             *)
(*   "points" (lines 180-318): FunctionShape is a slice of points.         *)
(* Both are modelled; the variable rev says which one a behaviour runs.    *)
(*                                                                         *)
(* A behaviour is one use of the package: the caller holds the arrays      *)
(* argX/argY, constructs a shape from them, builds the broken linear       *)
(* function or the scorer from the shape and calls it once.                *)
(* Slices are sequences; at(s, i) reads the Go index i (0-based).          *)
(* Division is Go's, truncating toward zero.  The amounts of all runs but  *)
(* the wide ones are far below 2^63, so no int64 operation of these runs   *)
(* wraps; the wide calls (SpecWide, SpecAmounts) score amounts near the    *)
(* top of the int64 range, where the product of line 137 wraps.            *)
(*                                                                         *)
(* Specifications:                                                         *)
(*   Spec            construct, build the broken linear function, call it  *)
(*   SpecScore       construct, build the scorer, score a node             *)
(*   SpecValidate    construct, from arrays of any lengths and values      *)
(*   SpecAlias       construct, then the caller writes to its arrays       *)
(*   SpecConcurrent  two goroutines call one scorer, steps interleaved     *)
(*   SpecVolumes     the scorer called with volume arguments               *)
(*   SpecParse       ParseRequestedToCapacityRatioScoringFunctionShape     *)
(*   SpecFloat       brokenLinearFunction of the float revision            *)
(*                   (src/unnamed/part_001)                                *)
(*   SpecWide        the scorer on int64 amounts that make line 137 wrap   *)
(*   SpecAmounts     construct, build the scorer, score a node on amounts  *)
(*                   far below or near the top of the int64 range          *)
(***************************************************************************)
EXTENDS Integers, Sequences, FiniteSets, TLC

VARIABLES
    rev,          \* revision of the package: "arrays" or "points"
    pc,           \* position of the caller
    argX, argY,   \* the caller's arrays handed to NewFunctionShape
    shape,        \* the FunctionShape returned by NewFunctionShape
    err,          \* the error returned by NewFunctionShape (<<>> is nil)
    fn,           \* breakpoints captured by the closure of buildBrokenLinearFunction
    p,            \* argument of the last call of the broken linear function
    requested,    \* argument of the last call of the scorer
    allocable,    \* argument of the last call of the scorer
    cpuScore,     \* local cpuScore of the last scorer call
    memoryScore,  \* local memoryScore of the last scorer call
    capDivs,      \* divisors of the divisions by capacity the last scorer call made
    result,       \* value returned by the last call
    outcome,      \* "none", "returned" or "panic" (the last call)
    shapeDesc,    \* argument of ParseRequestedToCapacityRatioScoringFunctionShape
    volumes,      \* volume arguments of the last call of the scorer
    calls,        \* frames of the scorer calls running concurrently
    unit          \* the amounts of the last scorer call count units of 2^unit

vars == <<rev, pc, argX, argY, shape, err, fn, p, requested, allocable,
          cpuScore, memoryScore, capDivs, result, outcome, shapeDesc, volumes,
          calls, unit>>

(***************************** bounds ***************************************)
\* longest array handed to NewFunctionShape
MaxLen == 3

(***************************** constants ************************************)
minX == 0
maxX == 100
minY == 0
maxY == 10

(***************************** Go arithmetic ********************************)
Abs(a) == IF a < 0 THEN -a ELSE a

\* faulty variant of GoDiv: the quotient is rounded down
GoDiv_floor(a, b) ==
    LET q == Abs(a) \div Abs(b)
    IN  IF (a < 0) # (b < 0)
        THEN (IF Abs(a) % Abs(b) = 0 THEN -q ELSE -q - 1)
        ELSE q

\* Go's integer division truncates toward zero (b # 0)
GoDiv(a, b) ==
    LET q == Abs(a) \div Abs(b)
    IN  IF (a < 0) # (b < 0) THEN -q ELSE q

\* Go index expression s[i], 0-based
at(s, i) == s[i + 1]

Returned(v) == [panic |-> FALSE, val |-> v]
Panic == [panic |-> TRUE, val |-> 0]

(***************************** revision "arrays" ****************************)
\* FunctionShape{}: the zero value returned beside an error
zeroShape == [x |-> <<>>, y |-> <<>>]

\* faulty variant of First: the loop keeps the last index it meets
First_last(S) == CHOOSE m \in S : \A k \in S : m >= k

\* the index a loop reaches first among those of S
First(S) == CHOOSE m \in S : \A k \in S : m <= k

\* faulty variant of domainError: the upper bound of y is not checked
domainError_noMaxY(xi, yi, i) ==
    IF xi < minX THEN <<"values in x must not be less than", minX, i, xi>>
    ELSE IF xi > maxX THEN <<"values in x must not be greater than", maxX, i, xi>>
    ELSE IF yi < minY THEN <<"values in y must not be less than", minY, i, yi>>
    ELSE <<>>

\* the first failing check of the loop body of lines 63-76 at index i, or <<>>
domainError(xi, yi, i) ==
    IF xi < minX THEN <<"values in x must not be less than", minX, i, xi>>
    ELSE IF xi > maxX THEN <<"values in x must not be greater than", maxX, i, xi>>
    ELSE IF yi < minY THEN <<"values in y must not be less than", minY, i, yi>>
    ELSE IF yi > maxY THEN <<"values in y must not be greater than", maxY, i, yi>>
    ELSE <<>>

\* faulty variant of NewFunctionShape: equal adjacent x values pass the
\* sorted check
NewFunctionShape_allowEqual(x, y) ==
    IF Len(x) # Len(y)
    THEN [shape |-> zeroShape,
          err   |-> <<"length of x does not match length of y", Len(x), Len(y)>>]
    ELSE
      LET n        == Len(x)
          unsorted == {i \in 1..(n - 1) : at(x, i - 1) > at(x, i)}
          outside  == {i \in 0..(n - 1) : domainError(at(x, i), at(y, i), i) # <<>>}
      IN  IF unsorted # {}
          THEN LET i == First(unsorted)
               IN  [shape |-> zeroShape,
                    err   |-> <<"values in x must be sorted",
                                i - 1, at(x, i - 1), i, at(x, i)>>]
          ELSE IF outside # {}
          THEN LET i == First(outside)
               IN  [shape |-> zeroShape,
                    err   |-> domainError(at(x, i), at(y, i), i)]
          ELSE [shape |-> [x |-> x, y |-> y], err |-> <<>>]

\* NewFunctionShape(x, y []int64) (FunctionShape, error); the error is the
\* tuple of the message and its arguments, <<>> is nil
NewFunctionShape(x, y) ==
    IF Len(x) # Len(y)
    THEN [shape |-> zeroShape,
          err   |-> <<"length of x does not match length of y", Len(x), Len(y)>>]
    ELSE
      LET n        == Len(x)
          unsorted == {i \in 1..(n - 1) : at(x, i - 1) >= at(x, i)}
          outside  == {i \in 0..(n - 1) : domainError(at(x, i), at(y, i), i) # <<>>}
      IN  IF unsorted # {}
          THEN LET i == First(unsorted)
               IN  [shape |-> zeroShape,
                    err   |-> <<"values in x must be sorted",
                                i - 1, at(x, i - 1), i, at(x, i)>>]
          ELSE IF outside # {}
          THEN LET i == First(outside)
               IN  [shape |-> zeroShape,
                    err   |-> domainError(at(x, i), at(y, i), i)]
          ELSE [shape |-> [x |-> x, y |-> y], err |-> <<>>]

\* faulty variant of segment: the divisor and the offset exchanged
segment_divByOffset(y0, y1, x0, x1, q) ==
    IF q - x0 = 0 THEN Panic
    ELSE Returned(y0 + GoDiv((y1 - y0) * (x1 - x0), q - x0))

\* faulty variant of segment: the offset taken from the right breakpoint
segment_fromRight(y0, y1, x0, x1, q) ==
    IF x1 - x0 = 0 THEN Panic
    ELSE Returned(y0 + GoDiv((y1 - y0) * (q - x1), x1 - x0))

\* the result of the closure's return statement of line 173 / 313:
\* y[i-1] + (y[i]-y[i-1])*(p-x[i-1])/(x[i]-x[i-1])
segment(y0, y1, x0, x1, q) ==
    IF x1 - x0 = 0 THEN Panic
    ELSE Returned(y0 + GoDiv((y1 - y0) * (q - x0), x1 - x0))

\* faulty variant of scan: beyond the last breakpoint the last segment is extended
RECURSIVE scan_extrapolate(_, _, _, _, _)
scan_extrapolate(x, y, n, q, i) ==
    IF i < n
    THEN IF q <= at(x, i)
         THEN IF i = 0
              THEN Returned(at(y, 0))
              ELSE segment(at(y, i - 1), at(y, i), at(x, i - 1), at(x, i), q)
         ELSE scan_extrapolate(x, y, n, q, i + 1)
    ELSE IF n = 0 THEN Panic
    ELSE IF n = 1 THEN Returned(at(y, 0))
    ELSE Returned(at(y, n - 2) + GoDiv((at(y, n - 1) - at(y, n - 2)) * (q - at(x, n - 2)),
                                       at(x, n - 1) - at(x, n - 2)))

\* the loop of the closure, from index i on (lines 168-176)
RECURSIVE scan(_, _, _, _, _)
scan(x, y, n, q, i) ==
    IF i < n
    THEN IF q <= at(x, i)
         THEN IF i = 0
              THEN Returned(at(y, 0))
              ELSE segment(at(y, i - 1), at(y, i), at(x, i - 1), at(x, i), q)
         ELSE scan(x, y, n, q, i + 1)
    ELSE IF n = 0 THEN Panic ELSE Returned(at(y, n - 1))

\* buildBrokenLinearFunction(shape): the breakpoints the closure captures
\* (copies of shape.x and shape.y), or glog.Fatalf
buildBrokenLinearFunction(s) ==
    IF Len(s.x) # Len(s.y)
    THEN [fatal |-> TRUE, x |-> <<>>, y |-> <<>>]
    ELSE [fatal |-> FALSE, x |-> s.x, y |-> s.y]

\* the closure returned by buildBrokenLinearFunction, applied to q
brokenLinearFunction(f, q) == scan(f.x, f.y, Len(f.x), q, 0)

(***************************** revision "points" ****************************)
\* []FunctionShapePoint of the parallel arrays x and y (equal lengths)
Points(x, y) == [i \in 1..Len(x) |-> [x |-> x[i], y |-> y[i]]]

NewFunctionShapePoints(points) ==
    LET n        == Len(points)
        unsorted == {i \in 1..(n - 1) : at(points, i - 1).x >= at(points, i).x}
        outside  == {i \in 0..(n - 1) :
                        domainError(at(points, i).x, at(points, i).y, i) # <<>>}
    IN  IF n = 0
        THEN [shape |-> <<>>, err |-> <<"at least one point must be specified">>]
        ELSE IF unsorted # {}
        THEN LET i == First(unsorted)
             IN  [shape |-> <<>>,
                  err   |-> <<"values in x must be sorted",
                              i - 1, at(points, i - 1).x, i, at(points, i).x>>]
        ELSE IF outside # {}
        THEN LET i == First(outside)
             IN  [shape |-> <<>>,
                  err   |-> domainError(at(points, i).x, at(points, i).y, i)]
        ELSE [shape |-> points, err |-> <<>>]

RECURSIVE scanPoints(_, _, _, _)
scanPoints(s, n, q, i) ==
    IF i < n
    THEN IF q <= at(s, i).x
         THEN IF i = 0
              THEN Returned(at(s, 0).y)
              ELSE segment(at(s, i - 1).y, at(s, i).y, at(s, i - 1).x, at(s, i).x, q)
         ELSE scanPoints(s, n, q, i + 1)
    ELSE IF n = 0 THEN Panic ELSE Returned(at(s, n - 1).y)

\* the closure of the "points" revision reads the shape itself
buildBrokenLinearFunctionPoints(s) == s

brokenLinearFunctionPoints(f, q) == scanPoints(f, Len(f), q, 0)

(***************************** both revisions *******************************)
\* the x and the y values of a shape of revision r
ShapeX(r, s) == IF r = "arrays" THEN s.x ELSE [i \in 1..Len(s) |-> s[i].x]
ShapeY(r, s) == IF r = "arrays" THEN s.y ELSE [i \in 1..Len(s) |-> s[i].y]

\* rawScoringFunction := buildBrokenLinearFunction(scoringFunctionShape)
rawScoringFunction(r, f, q) ==
    IF r = "arrays" THEN brokenLinearFunction(f, q)
    ELSE brokenLinearFunctionPoints(f, q)

\* faulty variant of resourceScoringFunction: an over-committed dimension is not
\* short-cut
resourceScoringFunction_noOvercommit(r, f, req, capacity) ==
    IF capacity = 0
    THEN [out |-> rawScoringFunction(r, f, maxX), divisors |-> <<>>]
    ELSE [out |-> rawScoringFunction(r, f,
                      maxX - GoDiv((capacity - req) * maxX, capacity)),
          divisors |-> <<capacity>>]

\* faulty variant of resourceScoringFunction: a request above the capacity is
\* scored as an idle node
resourceScoringFunction_overcommitIdle(r, f, req, capacity) ==
    IF capacity = 0 THEN [out |-> rawScoringFunction(r, f, maxX), divisors |-> <<>>]
    ELSE IF req > capacity
    THEN [out |-> rawScoringFunction(r, f, minX), divisors |-> <<>>]
    ELSE [out |-> rawScoringFunction(r, f,
                      maxX - GoDiv((capacity - req) * maxX, capacity)),
          divisors |-> <<capacity>>]

\* faulty variant of resourceScoringFunction: the position is the free share
resourceScoringFunction_freeShare(r, f, req, capacity) ==
    IF capacity = 0 \/ req > capacity
    THEN [out |-> rawScoringFunction(r, f, maxX), divisors |-> <<>>]
    ELSE [out |-> rawScoringFunction(r, f, GoDiv((capacity - req) * maxX, capacity)),
          divisors |-> <<capacity>>]

\* faulty variant of resourceScoringFunction: the position is the truncated used share
resourceScoringFunction_usedShare(r, f, req, capacity) ==
    IF capacity = 0 \/ req > capacity
    THEN [out |-> rawScoringFunction(r, f, maxX), divisors |-> <<>>]
    ELSE [out |-> rawScoringFunction(r, f, GoDiv(req * maxX, capacity)),
          divisors |-> <<capacity>>]

\* resourceScoringFunction (lines 132-138 / 281-287); divisors lists the
\* capacities the call divided by
resourceScoringFunction(r, f, req, capacity) ==
    IF capacity = 0 \/ req > capacity
    THEN [out |-> rawScoringFunction(r, f, maxX), divisors |-> <<>>]
    ELSE [out |-> rawScoringFunction(r, f,
                      maxX - GoDiv((capacity - req) * maxX, capacity)),
          divisors |-> <<capacity>>]

\* faulty variant of scorer: the CPU score counts twice
scorer_cpuWeighted(r, f, req, alloc) ==
    LET c == resourceScoringFunction(r, f, req.MilliCPU, alloc.MilliCPU)
        m == resourceScoringFunction(r, f, req.Memory, alloc.Memory)
    IN  IF c.out.panic
        THEN [out |-> Panic, cpuScore |-> 0, memoryScore |-> 0,
              divisors |-> [cpu |-> c.divisors, mem |-> <<>>]]
        ELSE IF m.out.panic
        THEN [out |-> Panic, cpuScore |-> c.out.val, memoryScore |-> 0,
              divisors |-> [cpu |-> c.divisors, mem |-> m.divisors]]
        ELSE [out |-> Returned(GoDiv(2 * c.out.val + m.out.val, 3)),
              cpuScore |-> c.out.val, memoryScore |-> m.out.val,
              divisors |-> [cpu |-> c.divisors, mem |-> m.divisors]]

\* the scorer closure (lines 140-144 / 289-293); the volume arguments are
\* not read
scorer(r, f, req, alloc) ==
    LET c == resourceScoringFunction(r, f, req.MilliCPU, alloc.MilliCPU)
        m == resourceScoringFunction(r, f, req.Memory, alloc.Memory)
    IN  IF c.out.panic
        THEN [out |-> Panic, cpuScore |-> 0, memoryScore |-> 0,
              divisors |-> [cpu |-> c.divisors, mem |-> <<>>]]
        ELSE IF m.out.panic
        THEN [out |-> Panic, cpuScore |-> c.out.val, memoryScore |-> 0,
              divisors |-> [cpu |-> c.divisors, mem |-> m.divisors]]
        ELSE [out |-> Returned(GoDiv(c.out.val + m.out.val, 2)),
              cpuScore |-> c.out.val, memoryScore |-> m.out.val,
              divisors |-> [cpu |-> c.divisors, mem |-> m.divisors]]

\* defaultFunctionShape (line 38)
defaultX == <<0, 100>>
defaultY == <<10, 0>>

(***************************** inputs ***************************************)
Revs == {"arrays", "points"}

\* all sequences over S of length n
SeqsOfLen(S, n) == [1..n -> S]

\* the pairs of arrays <<x, y>> of one length up to MaxLen, sorted or not
Arrays(X, Y) ==
    UNION {SeqsOfLen(X, n) \X SeqsOfLen(Y, n) : n \in 0..MaxLen}

\* breakpoint coordinates and query positions of the interpolation runs
XIn == {0, 10, 40, 90, 100}
YIn == {0, 2, 9, 10}
PIn == {-10, 0, 5, 10, 15, 20, 39, 40, 70, 89, 90, 99, 100, 110}

\* coordinates (inside and outside the domain) and resource amounts of the
\* scoring runs
XScore == {0, 40, 100}
YScore == {0, 2, 10, 11}
RequestedIn == {0, 1, 2, 3000, 5000}
CapacityIn == {0, 9, 4000, 6000, 10000}
Resources(S) == [MilliCPU : S, Memory : S]

(***************************** state machine ********************************)
noResource == [MilliCPU |-> 0, Memory |-> 0]
noDivs == [cpu |-> <<>>, mem |-> <<>>]
noVolumes == [includeVolumes |-> FALSE, requestedVolumes |-> 0,
              allocatableVolumes |-> 0]

\* the state before the first call, apart from the revision, the inputs and
\* the concurrent calls
Untouched ==
    /\ pc = "start"
    /\ shape = <<>>
    /\ err = <<>>
    /\ fn = <<>>
    /\ p = 0
    /\ requested = noResource
    /\ allocable = noResource
    /\ cpuScore = 0
    /\ memoryScore = 0
    /\ capDivs = noDivs
    /\ result = 0
    /\ outcome = "none"
    /\ volumes = noVolumes
    /\ unit = 0

InitWith(X, Y) ==
    /\ rev \in Revs
    /\ pc = "start"
    /\ \E a \in Arrays(X, Y) : argX = a[1] /\ argY = a[2]
    /\ shapeDesc = <<>>
    /\ volumes = noVolumes
    /\ calls = <<>>
    /\ shape = <<>>
    /\ err = <<>>
    /\ fn = <<>>
    /\ p = 0
    /\ requested = noResource
    /\ allocable = noResource
    /\ cpuScore = 0
    /\ memoryScore = 0
    /\ capDivs = noDivs
    /\ result = 0
    /\ outcome = "none"
    /\ unit = 0

Init == InitWith(XIn, YIn)
InitScore == InitWith(XScore, YScore)

\* the caller constructs the shape (revision "arrays")
CallNewFunctionShape ==
    /\ pc = "start"
    /\ rev = "arrays"
    /\ LET r == NewFunctionShape(argX, argY)
       IN  /\ shape' = r.shape
           /\ err' = r.err
           /\ pc' = IF r.err = <<>> THEN "constructed" ELSE "rejected"
    /\ UNCHANGED <<rev, argX, argY, fn, p, requested, allocable, cpuScore,
                   memoryScore, capDivs, result, outcome, shapeDesc,
                   volumes, calls, unit>>

\* the caller constructs the shape (revision "points")
CallNewFunctionShapePoints ==
    /\ pc = "start"
    /\ rev = "points"
    /\ LET r == NewFunctionShapePoints(Points(argX, argY))
       IN  /\ shape' = r.shape
           /\ err' = r.err
           /\ pc' = IF r.err = <<>> THEN "constructed" ELSE "rejected"
    /\ UNCHANGED <<rev, argX, argY, fn, p, requested, allocable, cpuScore,
                   memoryScore, capDivs, result, outcome, shapeDesc,
                   volumes, calls, unit>>

\* what buildBrokenLinearFunction leaves behind: the closure, or a fatal exit
Built(next) ==
    IF rev = "arrays"
    THEN LET f == buildBrokenLinearFunction(shape)
         IN  /\ fn' = [x |-> f.x, y |-> f.y]
             /\ pc' = IF f.fatal THEN "fatal" ELSE next
    ELSE /\ fn' = buildBrokenLinearFunctionPoints(shape)
         /\ pc' = next

\* function := buildBrokenLinearFunction(functionShape)
CallBuildBrokenLinearFunction ==
    /\ pc = "constructed"
    /\ Built("built")
    /\ UNCHANGED <<rev, argX, argY, shape, err, p, requested, allocable,
                   cpuScore, memoryScore, capDivs, result, outcome, shapeDesc,
                   volumes, calls, unit>>

\* function(q)
CallBrokenLinearFunction ==
    /\ pc = "built"
    /\ \E q \in PIn :
         LET r == rawScoringFunction(rev, fn, q)
         IN  /\ p' = q
             /\ result' = r.val
             /\ outcome' = IF r.panic THEN "panic" ELSE "returned"
    /\ pc' = "done"
    /\ UNCHANGED <<rev, argX, argY, shape, err, fn, requested, allocable,
                   cpuScore, memoryScore, capDivs, shapeDesc, volumes, calls,
                   unit>>

\* buildRequestedToCapacityRatioScorerFunction(shape), which builds the
\* broken linear function
CallBuildRequestedToCapacityRatioScorerFunction ==
    /\ pc = "constructed"
    /\ Built("scorer")
    /\ UNCHANGED <<rev, argX, argY, shape, err, p, requested, allocable,
                   cpuScore, memoryScore, capDivs, result, outcome, shapeDesc,
                   volumes, calls, unit>>

\* the scorer called with the requested and the allocable resources of a node
CallScorer ==
    /\ pc = "scorer"
    /\ \E req \in Resources(RequestedIn), alloc \in Resources(CapacityIn) :
         LET r == scorer(rev, fn, req, alloc)
         IN  /\ requested' = req
             /\ allocable' = alloc
             /\ cpuScore' = r.cpuScore
             /\ memoryScore' = r.memoryScore
             /\ capDivs' = r.divisors
             /\ result' = r.out.val
             /\ outcome' = IF r.out.panic THEN "panic" ELSE "returned"
    /\ pc' = "done"
    /\ UNCHANGED <<rev, argX, argY, shape, err, fn, p, shapeDesc, volumes,
                   calls, unit>>

Next ==
    \/ CallNewFunctionShape
    \/ CallNewFunctionShapePoints
    \/ CallBuildBrokenLinearFunction
    \/ CallBrokenLinearFunction

NextScore ==
    \/ CallNewFunctionShape
    \/ CallNewFunctionShapePoints
    \/ CallBuildRequestedToCapacityRatioScorerFunction
    \/ CallScorer

\* one interpolation run: construct, build, evaluate
Spec == Init /\ [][Next]_vars

\* one scoring run: construct, build the scorer, score a node
SpecScore == InitScore /\ [][NextScore]_vars

(***************************** wide amounts *********************************)
\* int64 amounts near the top of the range.  The amounts of a wide run are
\* the multiples a * 2^UnitBits, 0 <= a < 2^(CoefBits-1), and are held as
\* their coefficient a.  For such amounts the int64 product
\* (capacity-requested)*maxX is the multiple of 2^UnitBits whose coefficient
\* is (capacity-requested)*maxX of the coefficients wrapped to CoefBits bits,
\* and the quotient of two multiples is the quotient of their coefficients.

\* width of int64
WordBits == 64
\* the unit of the wide amounts is 2^UnitBits
UnitBits == 56
CoefBits == WordBits - UnitBits

\* two's complement wrap of k to CoefBits bits
WrapCoef(k) ==
    LET m == 2 ^ CoefBits
        r == k % m
    IN  IF r >= m \div 2 THEN r - m ELSE r

\* maxX - (capacity-requested)*maxX/capacity on wide amounts
positionWide(req, capacity) ==
    maxX - GoDiv(WrapCoef((capacity - req) * maxX), capacity)

\* resourceScoringFunction (lines 132-138 / 281-287) on wide amounts;
\* divisors lists the capacities the call divided by
resourceScoringFunctionWide(r, f, req, capacity) ==
    IF capacity = 0 \/ req > capacity
    THEN [out |-> rawScoringFunction(r, f, maxX), divisors |-> <<>>]
    ELSE [out |-> rawScoringFunction(r, f, positionWide(req, capacity)),
          divisors |-> <<capacity>>]

\* the scorer closure (lines 140-144 / 289-293) on wide amounts
scorerWide(r, f, req, alloc) ==
    LET c == resourceScoringFunctionWide(r, f, req.MilliCPU, alloc.MilliCPU)
        m == resourceScoringFunctionWide(r, f, req.Memory, alloc.Memory)
    IN  IF c.out.panic
        THEN [out |-> Panic, cpuScore |-> 0, memoryScore |-> 0,
              divisors |-> [cpu |-> c.divisors, mem |-> <<>>]]
        ELSE IF m.out.panic
        THEN [out |-> Panic, cpuScore |-> c.out.val, memoryScore |-> 0,
              divisors |-> [cpu |-> c.divisors, mem |-> m.divisors]]
        ELSE [out |-> Returned(GoDiv(c.out.val + m.out.val, 2)),
              cpuScore |-> c.out.val, memoryScore |-> m.out.val,
              divisors |-> [cpu |-> c.divisors, mem |-> m.divisors]]

\* coefficients of the wide runs: 0, the unit, twice the unit, a quarter of
\* the range and the largest amount
WideIn == {0, 1, 2, 2 ^ (CoefBits - 2), 2 ^ (CoefBits - 1) - 1}

\* the scorer called with wide amounts
CallScorerWide ==
    /\ pc = "scorer"
    /\ \E req \in Resources(WideIn), alloc \in Resources(WideIn) :
         LET r == scorerWide(rev, fn, req, alloc)
         IN  /\ requested' = req
             /\ allocable' = alloc
             /\ cpuScore' = r.cpuScore
             /\ memoryScore' = r.memoryScore
             /\ capDivs' = r.divisors
             /\ result' = r.out.val
             /\ outcome' = IF r.out.panic THEN "panic" ELSE "returned"
    /\ unit' = UnitBits
    /\ pc' = "done"
    /\ UNCHANGED <<rev, argX, argY, shape, err, fn, p, shapeDesc, volumes,
                   calls>>

NextAmounts ==
    \/ CallNewFunctionShape
    \/ CallNewFunctionShapePoints
    \/ CallBuildRequestedToCapacityRatioScorerFunction
    \/ CallScorer
    \/ CallScorerWide

\* one scoring run, with amounts far below or near the top of the int64 range
SpecAmounts == InitScore /\ [][NextAmounts]_vars

\* the breakpoints of the constructed shape
xs == ShapeX(rev, shape)
ys == ShapeY(rev, shape)
n == Len(xs)

(***************************** claims: interpolation ************************)
\* the value of line 173 for the segment ending at Go index i
formula(i, q) ==
    at(ys, i - 1)
      + GoDiv((at(ys, i) - at(ys, i - 1)) * (q - at(xs, i - 1)),
              at(xs, i) - at(xs, i - 1))

\* C1: for an accepted shape and p strictly between two adjacent breakpoints
\* x[i-1] < p < x[i], the broken linear function returns
\* y[i-1] + (y[i]-y[i-1])*(p-x[i-1])/(x[i]-x[i-1]) in integer arithmetic,
\* whatever the order of the y values.
C1_InterpolatesBetweenBreakpoints ==
    pc = "done" =>
        \A i \in 1..(n - 1) :
            (at(xs, i - 1) < p /\ p < at(xs, i)) =>
                outcome = "returned" /\ result = formula(i, p)

\* C1 witness: a non-monotonic shape evaluated inside its falling segment,
\* where the division leaves a remainder
C1_Witness ==
    /\ pc = "done"
    /\ n = 3
    /\ at(ys, 0) < at(ys, 1) /\ at(ys, 2) < at(ys, 1)
    /\ at(xs, 1) < p /\ p < at(xs, 2)
    /\ ((at(ys, 2) - at(ys, 1)) * (p - at(xs, 1))) % (at(xs, 2) - at(xs, 1)) # 0
    /\ outcome = "returned"
    /\ result = formula(2, p)

\* C2: for an accepted shape, the broken linear function evaluated at a
\* breakpoint x[i] (first, interior or last) returns y[i].
C2_ExactAtBreakpoints ==
    pc = "done" =>
        \A i \in 0..(n - 1) :
            p = at(xs, i) => outcome = "returned" /\ result = at(ys, i)

\* C2 witness: evaluation at an interior breakpoint whose y differs from
\* both neighbours
C2_Witness ==
    /\ pc = "done"
    /\ n = 3
    /\ p = at(xs, 1)
    /\ at(ys, 1) # at(ys, 0) /\ at(ys, 1) # at(ys, 2)
    /\ outcome = "returned"
    /\ result = at(ys, 1)

\* C3: for an accepted shape with at least one breakpoint, the broken linear
\* function returns y[0] for every p <= x[0] and y[n-1] for every
\* p >= x[n-1], also for p below 0 and above 100.
C3_ClampsOutsideRange ==
    (pc = "done" /\ n >= 1) =>
        /\ p <= at(xs, 0) => outcome = "returned" /\ result = at(ys, 0)
        /\ p >= at(xs, n - 1) => outcome = "returned" /\ result = at(ys, n - 1)

\* C3 witness: a rising last segment ending below 100, evaluated above 100
C3_Witness ==
    /\ pc = "done"
    /\ n >= 2
    /\ at(xs, n - 1) < maxX
    /\ p > maxX
    /\ at(ys, n - 1) > at(ys, n - 2)
    /\ outcome = "returned"
    /\ result = at(ys, n - 1)

(***************************** claims: scoring ******************************)
\* a dimension whose capacity is zero or over-committed
Saturated(req, capacity) == capacity = 0 \/ req > capacity

\* the position the claim names for one dimension
PositionOf(req, capacity) ==
    IF Saturated(req, capacity) THEN maxX
    ELSE maxX - GoDiv((capacity - req) * maxX, capacity)

\* C4: per dimension, when capacity == 0 or requested > capacity the score is
\* the interpolation function at maxX = 100 and nothing is divided by the
\* capacity; otherwise the score is the interpolation function at
\* maxX - (capacity-requested)*maxX/capacity.
C4_SaturatedOrRatioPosition ==
    pc = "done" =>
        LET ec == rawScoringFunction(rev, fn,
                      PositionOf(requested.MilliCPU, allocable.MilliCPU))
            em == rawScoringFunction(rev, fn,
                      PositionOf(requested.Memory, allocable.Memory))
        IN  /\ (outcome = "returned") <=> (~ec.panic /\ ~em.panic)
            /\ outcome = "returned" =>
                   cpuScore = ec.val /\ memoryScore = em.val
            /\ Saturated(requested.MilliCPU, allocable.MilliCPU) =>
                   capDivs.cpu = <<>>
            /\ Saturated(requested.Memory, allocable.Memory) =>
                   capDivs.mem = <<>>

\* C4 witness: CPU capacity 0 scored at maxX, memory over-committed on a
\* non-zero capacity, on a shape whose value at 100 is not its first value
C4_Witness ==
    /\ pc = "done"
    /\ outcome = "returned"
    /\ allocable.MilliCPU = 0
    /\ requested.Memory > allocable.Memory /\ allocable.Memory > 0
    /\ n >= 2
    /\ at(ys, n - 1) # at(ys, 0)
    /\ cpuScore = at(ys, n - 1)
    /\ memoryScore = at(ys, n - 1)
    /\ capDivs = noDivs

\* C5: for an accepted shape and requested >= 0, capacity >= 0 (capacity 0
\* and requested > capacity included), the node score the scorer returns is
\* an integer in [0, maxPriority] = [0, 10].
C5_ScoreInRange ==
    (pc = "done" /\ outcome = "returned") =>
        result \in minY..maxY

\* C5 witness: both dimensions saturated, one by capacity 0 and one by
\* over-commitment, and the score is the maximum
C5_Witness ==
    /\ pc = "done"
    /\ outcome = "returned"
    /\ allocable.MilliCPU = 0
    /\ requested.Memory > allocable.Memory
    /\ result = maxY

\* C6: for every shape NewFunctionShape returned without error and every
\* requested >= 0 and capacity >= 0, the scorer built from the shape returns
\* a value: no division by zero, no index out of range, no process exit.
C6_ScorerAlwaysReturns ==
    /\ pc # "fatal"
    /\ pc = "done" => outcome = "returned"

\* C7: with the default shape x=[0,100], y=[10,0] the scorer returns 10 for
\* {0, 0} on {4000, 10000}, 4 for {3000, 5000} on {4000, 10000} and 5 for
\* {3000, 5000} on {6000, 10000}.
C7_DefaultShapeScenarios ==
    (pc = "done" /\ xs = defaultX /\ ys = defaultY) =>
        /\ (/\ requested = [MilliCPU |-> 0, Memory |-> 0]
            /\ allocable = [MilliCPU |-> 4000, Memory |-> 10000])
           => (outcome = "returned" /\ result = 10)
        /\ (/\ requested = [MilliCPU |-> 3000, Memory |-> 5000]
            /\ allocable = [MilliCPU |-> 4000, Memory |-> 10000])
           => (outcome = "returned" /\ result = 4)
        /\ (/\ requested = [MilliCPU |-> 3000, Memory |-> 5000]
            /\ allocable = [MilliCPU |-> 6000, Memory |-> 10000])
           => (outcome = "returned" /\ result = 5)

\* C7 witness: the default shape scoring {3000, 5000} on {4000, 10000}
C7_Witness ==
    /\ pc = "done"
    /\ xs = defaultX /\ ys = defaultY
    /\ requested = [MilliCPU |-> 3000, Memory |-> 5000]
    /\ allocable = [MilliCPU |-> 4000, Memory |-> 10000]
    /\ cpuScore = 3 /\ memoryScore = 5
    /\ result = 4

\* the two dimensions exchanged
Swapped(r) == [MilliCPU |-> r.Memory, Memory |-> r.MilliCPU]

\* C8: the node score is (cpuScore + memoryScore) / 2, each score computed
\* from its own (requested, capacity) pair against the same shape, and
\* exchanging the CPU pair with the memory pair leaves the node score
\* unchanged.
C8_MeanOfCpuAndMemory ==
    (pc = "done" /\ outcome = "returned") =>
        /\ result = GoDiv(cpuScore + memoryScore, 2)
        /\ cpuScore = rawScoringFunction(rev, fn,
               PositionOf(requested.MilliCPU, allocable.MilliCPU)).val
        /\ memoryScore = rawScoringFunction(rev, fn,
               PositionOf(requested.Memory, allocable.Memory)).val
        /\ scorer(rev, fn, Swapped(requested), Swapped(allocable)).out
               = Returned(result)

\* C8 witness: different scores of the two dimensions with an odd sum
C8_Witness ==
    /\ pc = "done"
    /\ outcome = "returned"
    /\ cpuScore > memoryScore
    /\ (cpuScore + memoryScore) % 2 = 1
    /\ result = (cpuScore + memoryScore - 1) \div 2

(***************************** claims: arithmetic ***************************)
\* exact rationals <<numerator, denominator>>, denominator > 0, in lowest terms
RECURSIVE GCD(_, _)
GCD(a, b) == IF b = 0 THEN a ELSE GCD(b, a % b)

Rat(a, b) ==
    LET g == GCD(Abs(a), b)
    IN  IF g = 0 THEN <<0, 1>> ELSE <<a \div g, b \div g>>

\* the exact utilization position of one dimension (a ratio of amounts: the
\* unit they count cancels)
ExactPosition(req, capacity) ==
    IF Saturated(req, capacity) THEN <<maxX, 1>>
    ELSE Rat(maxX * capacity - (capacity - req) * maxX, capacity)

\* the exact value of the broken line through the breakpoints at the
\* rational position q (n >= 1)
ExactInterpolation(q) ==
    IF q[1] <= at(xs, 0) * q[2] THEN <<at(ys, 0), 1>>
    ELSE IF q[1] >= at(xs, n - 1) * q[2] THEN <<at(ys, n - 1), 1>>
    ELSE LET i  == CHOOSE j \in 1..(n - 1) :
                       at(xs, j - 1) * q[2] < q[1] /\ q[1] <= at(xs, j) * q[2]
             dx == at(xs, i) - at(xs, i - 1)
             dy == at(ys, i) - at(ys, i - 1)
         IN  Rat(at(ys, i - 1) * q[2] * dx + dy * (q[1] - at(xs, i - 1) * q[2]),
                 q[2] * dx)

\* the exact mean of the two exact scores, truncated once (it is not negative)
ExactScore ==
    LET c == ExactInterpolation(
                 ExactPosition(requested.MilliCPU, allocable.MilliCPU))
        m == ExactInterpolation(
                 ExactPosition(requested.Memory, allocable.Memory))
    IN  (c[1] * m[2] + m[1] * c[2]) \div (2 * c[2] * m[2])

\* (capacity-requested)*maxX as line 137 computes it in int64, in units of
\* 2^unit: amounts that count single units are below 2^63/maxX in every run
\* and their product is exact; the product of amounts that count units of
\* 2^UnitBits wraps
Int64Product(req, capacity) ==
    IF unit = 0 THEN (capacity - req) * maxX
    ELSE WrapCoef((capacity - req) * maxX)

\* the product of line 137 stays within the int64 range
ProductInRange(req, capacity) ==
    Saturated(req, capacity) \/ Int64Product(req, capacity) = (capacity - req) * maxX

\* the position of one dimension with its division truncated toward zero
Int64Position(req, capacity) ==
    IF Saturated(req, capacity) THEN maxX
    ELSE maxX - GoDiv(Int64Product(req, capacity), capacity)

\* the broken line at the integer position q, every division truncated
\* toward zero (n >= 1)
TruncatedInterpolation(q) ==
    IF q <= at(xs, 0) THEN at(ys, 0)
    ELSE IF q >= at(xs, n - 1) THEN at(ys, n - 1)
    ELSE formula(CHOOSE j \in 1..(n - 1) : at(xs, j - 1) < q /\ q <= at(xs, j), q)

\* the score with the position, both interpolations and the mean truncated
TruncatedScore ==
    GoDiv(TruncatedInterpolation(Int64Position(requested.MilliCPU, allocable.MilliCPU))
            + TruncatedInterpolation(Int64Position(requested.Memory, allocable.Memory)),
          2)

\* the division of the position of one dimension leaves no remainder
PositionExact(req, capacity) ==
    Saturated(req, capacity) \/ Int64Product(req, capacity) % capacity = 0

\* the division of the interpolation at the integer position q leaves no
\* remainder
InterpolationExact(q) ==
    \A j \in 1..(n - 1) :
        (at(xs, j - 1) < q /\ q <= at(xs, j)) =>
            ((at(ys, j) - at(ys, j - 1)) * (q - at(xs, j - 1)))
                % (at(xs, j) - at(xs, j - 1)) = 0

DivisionsExact ==
    /\ PositionExact(requested.MilliCPU, allocable.MilliCPU)
    /\ PositionExact(requested.Memory, allocable.Memory)
    /\ InterpolationExact(Int64Position(requested.MilliCPU, allocable.MilliCPU))
    /\ InterpolationExact(Int64Position(requested.Memory, allocable.Memory))

ProductsInRange ==
    /\ ProductInRange(requested.MilliCPU, allocable.MilliCPU)
    /\ ProductInRange(requested.Memory, allocable.Memory)

\* C9 as stated: the node score equals the positions, both interpolations and
\* their mean computed in exact rational arithmetic and truncated once at the
\* end; no intermediate value is truncated.
C9_ExactUntilTheEnd ==
    (pc = "done" /\ outcome = "returned") => result = ExactScore

\* C9 as amended: the node score is computed in int64 arithmetic with the
\* position, each per-dimension interpolation and the mean each truncated
\* toward zero and the product (capacity-requested)*maxX wrapped to 64 bits;
\* it equals the exact value truncated once whenever the position and
\* interpolation divisions leave no remainder and that product stays within
\* the int64 range.
C9_TruncatedAtEveryDivision ==
    (pc = "done" /\ outcome = "returned") =>
        /\ result = TruncatedScore
        /\ (DivisionsExact /\ ProductsInRange) => result = ExactScore

\* the case the amendment excludes: no division leaves a remainder, the
\* product wraps, and the score is not the exact one
WrappedScoreDiffers ==
    /\ pc = "done"
    /\ outcome = "returned"
    /\ DivisionsExact
    /\ ~ProductsInRange
    /\ result # ExactScore

\* C9 witness: amounts near the top of the int64 range whose products stay
\* in range, both dimensions below or at capacity, the memory position inside
\* a segment, every division exact, different scores
C9_Witness ==
    /\ pc = "done"
    /\ outcome = "returned"
    /\ unit = UnitBits
    /\ ~Saturated(requested.MilliCPU, allocable.MilliCPU)
    /\ ~Saturated(requested.Memory, allocable.Memory)
    /\ requested.MilliCPU > 0 /\ requested.Memory > 0
    /\ \E j \in 1..(n - 1) :
           LET q == Int64Position(requested.Memory, allocable.Memory)
           IN  at(xs, j - 1) < q /\ q < at(xs, j)
    /\ DivisionsExact
    /\ ProductsInRange
    /\ cpuScore # memoryScore
    /\ result = ExactScore
    /\ result = TruncatedScore

(***************************** claims: construction *************************)
\* C10: NewFunctionShape called with zero breakpoints returns an error and no
\* usable shape.
C10_EmptyShapeRejected ==
    (pc # "start" /\ Len(argX) = 0 /\ Len(argY) = 0) =>
        (err # <<>> /\ pc = "rejected")

(***************************** validation runs ******************************)
\* coordinates inside and outside the domain
XValidate == {-1, 0, 50, 100, 101}
YValidate == {-1, 0, 10, 11}

\* a validation run hands NewFunctionShape arrays of any two lengths up to
\* MaxLen (revision "arrays") or any points (revision "points", where a point
\* holds both coordinates)
InitValidate ==
    /\ rev \in Revs
    /\ \E k \in 0..MaxLen, l \in 0..MaxLen :
         /\ rev = "points" => k = l
         /\ argX \in SeqsOfLen(XValidate, k)
         /\ argY \in SeqsOfLen(YValidate, l)
    /\ shapeDesc = <<>>
    /\ calls = <<>>
    /\ Untouched

NextValidate ==
    \/ CallNewFunctionShape
    \/ CallNewFunctionShapePoints

\* one validation run: construct
SpecValidate == InitValidate /\ [][NextValidate]_vars

(***************************** claims: validation ***************************)
\* the Go indices i with x[i] >= x[i+1]
Inversions == {i \in 0..(Len(argX) - 2) : at(argX, i) >= at(argX, i + 1)}

\* the error is the sorted-order error of the first inversion
SortedErrorOfFirstInversion ==
    /\ pc = "rejected"
    /\ Len(err) = 5
    /\ err[1] = "values in x must be sorted"
    /\ err[2] \in Inversions
    /\ \A j \in Inversions : err[2] <= j
    /\ err[3] = at(argX, err[2])
    /\ err[4] = err[2] + 1
    /\ err[5] = at(argX, err[2] + 1)

\* C11 as stated: whenever the x values handed to NewFunctionShape are not
\* strictly increasing, construction fails with the sorted-order error that
\* names the smallest index i with x[i] >= x[i+1], the index i+1 and both
\* values.
C11_SortedErrorNamesFirstInversion ==
    (pc # "start" /\ Inversions # {}) => SortedErrorOfFirstInversion

\* C11 as amended: the same, for x and y of one length; with different
\* lengths the length error comes first.
C11_SortedErrorNamesFirstInversionOfEqualLengths ==
    (pc # "start" /\ Inversions # {}) =>
        IF Len(argX) = Len(argY)
        THEN SortedErrorOfFirstInversion
        ELSE pc = "rejected" /\ err[1] = "length of x does not match length of y"

\* C11 witness: two inversions, the second between equal values, and the
\* error names the first
C11_Witness ==
    /\ pc = "rejected"
    /\ Len(argX) = Len(argY)
    /\ Inversions = {0, 1}
    /\ at(argX, 1) = at(argX, 2)
    /\ err = <<"values in x must be sorted", 0, at(argX, 0), 1, at(argX, 1)>>

\* the four conditions of an acceptable shape
StrictlyIncreasing(x) == \A i \in 0..(Len(x) - 2) : at(x, i) < at(x, i + 1)
InDomain(x, y) ==
    /\ \A i \in 0..(Len(x) - 1) : minX <= at(x, i) /\ at(x, i) <= maxX
    /\ \A i \in 0..(Len(y) - 1) : minY <= at(y, i) /\ at(y, i) <= maxY
Acceptable(x, y) ==
    /\ Len(x) = Len(y)
    /\ StrictlyIncreasing(x)
    /\ InDomain(x, y)

\* the zero value of FunctionShape in the revision run
ZeroValue == IF rev = "arrays" THEN zeroShape ELSE <<>>

\* the Go indices of the points with a coordinate outside its domain
Offending ==
    {i \in 0..(Len(argX) - 1) :
        \/ at(argX, i) < minX \/ at(argX, i) > maxX
        \/ at(argY, i) < minY \/ at(argY, i) > maxY}

\* the error is an out-of-domain error
DomainErrors ==
    {"values in x must not be less than", "values in x must not be greater than",
     "values in y must not be less than", "values in y must not be greater than"}
IsDomainError == Len(err) = 4 /\ err[1] \in DomainErrors

\* the out-of-domain error names the bound, the index i and the value that
\* broke the bound at i
NamesOffender(i) ==
    /\ err[3] = i
    /\ \/ err[1] = "values in x must not be less than"
          /\ err[2] = minX /\ err[4] = at(argX, i) /\ at(argX, i) < minX
       \/ err[1] = "values in x must not be greater than"
          /\ err[2] = maxX /\ err[4] = at(argX, i) /\ at(argX, i) > maxX
       \/ err[1] = "values in y must not be less than"
          /\ err[2] = minY /\ err[4] = at(argY, i) /\ at(argY, i) < minY
       \/ err[1] = "values in y must not be greater than"
          /\ err[2] = maxY /\ err[4] = at(argY, i) /\ at(argY, i) > maxY

\* C12: for inputs that are not empty, NewFunctionShape returns a shape with
\* a nil error exactly when x and y have one length, x is strictly increasing,
\* every x lies in [0, 100] and every y in [0, 10], and the shape holds the
\* inputs; otherwise it returns an error and the zero-value shape, a length
\* mismatch is reported before any other violation, and an out-of-domain
\* error names the first offending index and its value.
C12_AcceptsExactlyTheValidShapes ==
    (pc # "start" /\ Len(argX) + Len(argY) > 0) =>
        /\ (err = <<>>) <=> Acceptable(argX, argY)
        /\ (err = <<>>) => (pc = "constructed" /\ xs = argX /\ ys = argY)
        /\ (err # <<>>) => (pc = "rejected" /\ shape = ZeroValue)
        /\ Len(argX) # Len(argY) =>
               err = <<"length of x does not match length of y",
                       Len(argX), Len(argY)>>
        /\ IsDomainError =>
               /\ Offending # {}
               /\ \A j \in Offending : err[3] <= j
               /\ NamesOffender(err[3])

\* C12 witness: a sorted shape whose first point is fine, whose second point
\* has y outside the domain and whose third point has x outside it; the error
\* names y of the second point
C12_Witness ==
    /\ pc = "rejected"
    /\ Len(argX) = 3 /\ Len(argY) = 3
    /\ StrictlyIncreasing(argX)
    /\ Offending = {1, 2}
    /\ at(argX, 2) > maxX
    /\ err = <<"values in y must not be greater than", maxY, 1, at(argY, 1)>>

(***************************** caller writes ********************************)
\* coordinates of the shapes of the aliasing runs and the values the caller
\* writes into its arrays afterwards
XAlias == {0, 50, 100}
YAlias == {0, 10}
XWritten == {0, 50, 100, 200}
YWritten == {0, 10, 50}
PAlias == {0, 25, 50, 75, 100}

InitAlias == InitWith(XAlias, YAlias)

\* the shape held by the package once the caller's arrays hold x and y:
\* FunctionShape{x: x, y: y} of lines 78-81 shares the arrays with the caller,
\* the copy of lines 258-261 does not
afterCallerWrite(r, s, x, y) ==
    IF r = "arrays" THEN [x |-> x, y |-> y] ELSE s

\* the caller assigns to one element of an array it handed to
\* NewFunctionShape, before the function is built or after it
CallerWrites ==
    /\ pc \in {"constructed", "built"}
    /\ \/ \E i \in 1..Len(argX), v \in XWritten :
            /\ v # argX[i]
            /\ argX' = [argX EXCEPT ![i] = v]
            /\ argY' = argY
       \/ \E i \in 1..Len(argY), v \in YWritten :
            /\ v # argY[i]
            /\ argY' = [argY EXCEPT ![i] = v]
            /\ argX' = argX
    /\ shape' = afterCallerWrite(rev, shape, argX', argY')
    /\ pc' = IF pc = "constructed" THEN "written" ELSE "built after write"
    /\ UNCHANGED <<rev, err, fn, p, requested, allocable, cpuScore,
                   memoryScore, capDivs, result, outcome, shapeDesc,
                   volumes, calls, unit>>

\* function := buildBrokenLinearFunction(functionShape), after the write
CallBuildBrokenLinearFunctionAfterWrite ==
    /\ pc = "written"
    /\ Built("built after write")
    /\ UNCHANGED <<rev, argX, argY, shape, err, p, requested, allocable,
                   cpuScore, memoryScore, capDivs, result, outcome, shapeDesc,
                   volumes, calls, unit>>

\* function(q), after the write
CallBrokenLinearFunctionAfterWrite ==
    /\ pc = "built after write"
    /\ \E q \in PAlias :
         LET r == rawScoringFunction(rev, fn, q)
         IN  /\ p' = q
             /\ result' = r.val
             /\ outcome' = IF r.panic THEN "panic" ELSE "returned"
    /\ pc' = "done"
    /\ UNCHANGED <<rev, argX, argY, shape, err, fn, requested, allocable,
                   cpuScore, memoryScore, capDivs, shapeDesc, volumes, calls,
                   unit>>

NextAlias ==
    \/ CallNewFunctionShape
    \/ CallNewFunctionShapePoints
    \/ CallBuildBrokenLinearFunction
    \/ CallerWrites
    \/ CallBuildBrokenLinearFunctionAfterWrite
    \/ CallBrokenLinearFunctionAfterWrite

\* one aliasing run: construct, write to the arrays and build in either
\* order, evaluate
SpecAlias == InitAlias /\ [][NextAlias]_vars

(***************************** claims: aliasing *****************************)
\* the breakpoints a function built from shape s evaluates
closureOf(r, s) ==
    IF r = "arrays"
    THEN LET f == buildBrokenLinearFunction(s) IN [x |-> f.x, y |-> f.y]
    ELSE buildBrokenLinearFunctionPoints(s)

\* C13: once NewFunctionShape has succeeded, a write of the caller to the
\* arrays it passed in leaves the shape as it was: the function built before
\* the write and a function built after it return what they returned without
\* the write, and the shape still satisfies the construction invariants.
C13_CallerWritesLeaveShapeUnchanged ==
    [][(pc \in {"constructed", "built"} /\ pc' \in {"written", "built after write"}) =>
          /\ shape' = shape
          /\ fn' = fn
          /\ \A q \in PAlias :
                 rawScoringFunction(rev, closureOf(rev, shape'), q)
                     = rawScoringFunction(rev, closureOf(rev, shape), q)
          /\ Acceptable(ShapeX(rev, shape'), ShapeY(rev, shape'))]_vars

(***************************** concurrent calls *****************************)
\* the goroutines that call the scorer at the same time
Goroutines == {1, 2}

\* shapes and arguments of the concurrent runs
XConcurrent == {0, 100}
YConcurrent == {0, 10}
RequestedConcurrent ==
    {[MilliCPU |-> 0, Memory |-> 0], [MilliCPU |-> 3000, Memory |-> 5000],
     [MilliCPU |-> 5000, Memory |-> 3000]}
AllocableConcurrent ==
    {[MilliCPU |-> 4000, Memory |-> 10000], [MilliCPU |-> 6000, Memory |-> 10000]}

\* faulty variant of frame: every call keeps its locals in one place
frame_shared(g) == 1

\* where the call of goroutine g keeps cpuScore and memoryScore: the :=
\* declarations of lines 141-142 are locals of each call of the closure
frame(g) == g

noLocals == [cpuScore |-> 0, memoryScore |-> 0]
noReturn == [result |-> 0, outcome |-> "none"]

\* no goroutine has called yet
idleCalls ==
    [at     |-> [g \in Goroutines |-> "idle"],
     args   |-> [g \in Goroutines |-> [requested |-> noResource, allocable |-> noResource]],
     locals |-> [g \in Goroutines |-> noLocals],
     out    |-> [g \in Goroutines |-> noReturn]]

InitConcurrent ==
    /\ rev \in Revs
    /\ \E a \in Arrays(XConcurrent, YConcurrent) : argX = a[1] /\ argY = a[2]
    /\ shapeDesc = <<>>
    /\ calls = idleCalls
    /\ Untouched

\* everything but the frames of the concurrent calls
shared == <<rev, pc, argX, argY, shape, err, fn, p, requested, allocable,
            cpuScore, memoryScore, capDivs, result, outcome, shapeDesc,
            volumes, unit>>

\* the call of goroutine g ends by a panic
Panicked(g) ==
    [calls EXCEPT !.at[g] = "done",
                  !.out[g] = [result |-> 0, outcome |-> "panic"]]

\* goroutine g calls the scorer
Enter(g) ==
    /\ pc = "scorer"
    /\ calls.at[g] = "idle"
    /\ \E req \in RequestedConcurrent, alloc \in AllocableConcurrent :
         calls' = [calls EXCEPT !.at[g] = "cpu",
                                !.args[g] = [requested |-> req, allocable |-> alloc]]
    /\ UNCHANGED shared

\* cpuScore := resourceScoringFunction(requested.MilliCPU, allocable.MilliCPU)
StepCpuScore(g) ==
    /\ pc = "scorer"
    /\ calls.at[g] = "cpu"
    /\ LET a == calls.args[g]
           r == resourceScoringFunction(rev, fn, a.requested.MilliCPU,
                                        a.allocable.MilliCPU)
       IN  calls' = IF r.out.panic THEN Panicked(g)
                    ELSE [calls EXCEPT !.at[g] = "memory",
                                       !.locals[frame(g)].cpuScore = r.out.val]
    /\ UNCHANGED shared

\* memoryScore := resourceScoringFunction(requested.Memory, allocable.Memory)
StepMemoryScore(g) ==
    /\ pc = "scorer"
    /\ calls.at[g] = "memory"
    /\ LET a == calls.args[g]
           r == resourceScoringFunction(rev, fn, a.requested.Memory,
                                        a.allocable.Memory)
       IN  calls' = IF r.out.panic THEN Panicked(g)
                    ELSE [calls EXCEPT !.at[g] = "return",
                                       !.locals[frame(g)].memoryScore = r.out.val]
    /\ UNCHANGED shared

\* return (cpuScore + memoryScore) / 2
StepReturn(g) ==
    /\ pc = "scorer"
    /\ calls.at[g] = "return"
    /\ LET l == calls.locals[frame(g)]
       IN  calls' = [calls EXCEPT
                       !.at[g] = "done",
                       !.out[g] = [result  |-> GoDiv(l.cpuScore + l.memoryScore, 2),
                                   outcome |-> "returned"]]
    /\ UNCHANGED shared

NextConcurrent ==
    \/ CallNewFunctionShape
    \/ CallNewFunctionShapePoints
    \/ CallBuildRequestedToCapacityRatioScorerFunction
    \/ \E g \in Goroutines : Enter(g)
    \/ \E g \in Goroutines : StepCpuScore(g)
    \/ \E g \in Goroutines : StepMemoryScore(g)
    \/ \E g \in Goroutines : StepReturn(g)

\* one concurrent run: construct, build the scorer, then the goroutines call
\* it, their steps interleaved in any order
SpecConcurrent == InitConcurrent /\ [][NextConcurrent]_vars

(***************************** claims: concurrency **************************)
\* what the call of goroutine g returns when it runs alone
Alone(g) ==
    LET a == calls.args[g]
        r == scorer(rev, fn, a.requested, a.allocable).out
    IN  [result |-> r.val, outcome |-> IF r.panic THEN "panic" ELSE "returned"]

\* C14: scorer calls running concurrently against one shape and one built
\* function, their steps interleaved in any order, write nothing the calls
\* share (the shape and the captured breakpoints stay as construction left
\* them), and every call returns what it returns when run alone.
C14_ConcurrentCallsAreIndependent ==
    pc = "scorer" =>
        /\ xs = argX /\ ys = argY
        /\ fn = closureOf(rev, shape)
        /\ \A g \in Goroutines : calls.at[g] = "done" => calls.out[g] = Alone(g)

\* C14 witness: goroutine 2 has returned its own score while goroutine 1,
\* called with other arguments that give another cpuScore and another score,
\* is between its two per-dimension computations
C14_Witness ==
    /\ pc = "scorer"
    /\ calls.at[1] = "memory"
    /\ calls.at[2] = "done"
    /\ calls.args[1] # calls.args[2]
    /\ calls.out[2] = Alone(2)
    /\ calls.out[2].outcome = "returned"
    /\ Alone(1).result # Alone(2).result
    /\ calls.locals[frame(1)].cpuScore # calls.locals[frame(2)].cpuScore

(***************************** volume arguments *****************************)
\* the volume arguments of the scorer and the resources of the volume runs
VolumesIn ==
    [includeVolumes : BOOLEAN, requestedVolumes : {0, 1, 5},
     allocatableVolumes : {0, 1, 5}]
RequestedVolumeRuns == Resources({0, 3000, 5000})
AllocableVolumeRuns == Resources({0, 4000, 10000})

InitVolumes == InitWith(XConcurrent, YConcurrent)

\* faulty variant of scorerWithVolumes: the share of requested volumes enters
\* the mean when includeVolumes is set
scorerWithVolumes_counted(r, f, req, alloc, includeVolumes, requestedVolumes, allocatableVolumes) ==
    LET s == scorer(r, f, req, alloc)
    IN  IF s.out.panic \/ ~includeVolumes \/ allocatableVolumes = 0
        THEN s
        ELSE [s EXCEPT !.out =
                 Returned(GoDiv(s.cpuScore + s.memoryScore
                                  + GoDiv(requestedVolumes * maxY, allocatableVolumes),
                                3))]

\* the closure of lines 140-144 with its whole parameter list: the body reads
\* requested and allocable only
scorerWithVolumes(r, f, req, alloc, includeVolumes, requestedVolumes, allocatableVolumes) ==
    scorer(r, f, req, alloc)

\* the scorer called with the resources and the volume counts of a node
CallScorerWithVolumes ==
    /\ pc = "scorer"
    /\ \E req \in RequestedVolumeRuns, alloc \in AllocableVolumeRuns,
          v \in VolumesIn :
         LET r == scorerWithVolumes(rev, fn, req, alloc, v.includeVolumes,
                                    v.requestedVolumes, v.allocatableVolumes)
         IN  /\ requested' = req
             /\ allocable' = alloc
             /\ volumes' = v
             /\ cpuScore' = r.cpuScore
             /\ memoryScore' = r.memoryScore
             /\ capDivs' = r.divisors
             /\ result' = r.out.val
             /\ outcome' = IF r.out.panic THEN "panic" ELSE "returned"
    /\ pc' = "done"
    /\ UNCHANGED <<rev, argX, argY, shape, err, fn, p, shapeDesc, calls, unit>>

NextVolumes ==
    \/ CallNewFunctionShape
    \/ CallNewFunctionShapePoints
    \/ CallBuildRequestedToCapacityRatioScorerFunction
    \/ CallScorerWithVolumes

\* one scoring run with volume arguments
SpecVolumes == InitVolumes /\ [][NextVolumes]_vars

(***************************** claims: volumes ******************************)
\* what the call made returns with the volume arguments v in place of its own
WithVolumes(v) ==
    LET r == scorerWithVolumes(rev, fn, requested, allocable, v.includeVolumes,
                               v.requestedVolumes, v.allocatableVolumes).out
    IN  <<r.val, IF r.panic THEN "panic" ELSE "returned">>

\* C15: two calls of the scorer that agree on the shape, the requested and
\* the allocatable CPU and memory return the same result whatever
\* includeVolumes, requestedVolumes and allocatableVolumes are in each.
C15_VolumesDoNotInfluenceTheScore ==
    pc = "done" => \A v \in VolumesIn : WithVolumes(v) = <<result, outcome>>

\* C15 witness: a call with includeVolumes set and more volumes requested
\* than allocatable, on a node with both resources partly used, returns the
\* score of the call without volumes
C15_Witness ==
    /\ pc = "done"
    /\ outcome = "returned"
    /\ volumes.includeVolumes
    /\ volumes.requestedVolumes > volumes.allocatableVolumes
    /\ volumes.allocatableVolumes > 0
    /\ requested.MilliCPU > 0 /\ requested.MilliCPU < allocable.MilliCPU
    /\ requested.Memory > 0 /\ requested.Memory < allocable.Memory
    /\ cpuScore # memoryScore
    /\ WithVolumes(noVolumes) = <<result, outcome>>

(***************************** claims: orientation **************************)
\* C16: with the increasing shape x=[0,100], y=[0,10] the same scorer prefers
\* the most utilized node: it returns 0 for {0, 0} on {4000, 10000}, 6 for
\* {3000, 5000} on {4000, 10000} and 5 for {3000, 5000} on {6000, 10000}.
C16_IncreasingShapeScenarios ==
    (pc = "done" /\ xs = <<minX, maxX>> /\ ys = <<minY, maxY>>) =>
        /\ (/\ requested = [MilliCPU |-> 0, Memory |-> 0]
            /\ allocable = [MilliCPU |-> 4000, Memory |-> 10000])
           => (outcome = "returned" /\ result = 0)
        /\ (/\ requested = [MilliCPU |-> 3000, Memory |-> 5000]
            /\ allocable = [MilliCPU |-> 4000, Memory |-> 10000])
           => (outcome = "returned" /\ result = 6)
        /\ (/\ requested = [MilliCPU |-> 3000, Memory |-> 5000]
            /\ allocable = [MilliCPU |-> 6000, Memory |-> 10000])
           => (outcome = "returned" /\ result = 5)

\* C16 witness: the increasing shape scoring {3000, 5000} on {4000, 10000}
C16_Witness ==
    /\ pc = "done"
    /\ xs = <<minX, maxX>> /\ ys = <<minY, maxY>>
    /\ requested = [MilliCPU |-> 3000, Memory |-> 5000]
    /\ allocable = [MilliCPU |-> 4000, Memory |-> 10000]
    /\ cpuScore = 7 /\ memoryScore = 5
    /\ result = 6

(***************************** shape descriptors ****************************)
\* A descriptor is a string, modelled as the sequence of its lexemes: the
\* separators "," and "=" and the pieces of text "0", "0.3", "x", "-", "e",
\* "NaN" and "Inf".  Pieces that follow each other without a separator form
\* one token ("0" "0.3" is the token "00.3", "-" "0.3" "e" "0" is "-0.3e0").

\* longest descriptor, in lexemes
MaxDesc == 7

Lexemes == {",", "=", "0", "0.3", "x", "-", "e", "NaN", "Inf"}
\* the descriptors of k lexemes
Descriptors(k) == SeqsOfLen(Lexemes, k)

\* strings.Split(s, sep): the tokens between the separators; the empty string
\* gives one empty token
RECURSIVE Split(_, _)
Split(s, sep) ==
    IF \A k \in 1..Len(s) : s[k] # sep
    THEN <<s>>
    ELSE LET k == First({j \in 1..Len(s) : s[j] = sep})
         IN  <<SubSeq(s, 1, k - 1)>> \o Split(SubSeq(s, k + 1, Len(s)), sep)

\* A float64 is a record: a finite value held in tenths (0.3 is 3; the sign
\* of a zero is not kept, -0 compares equal to 0), an infinity with its sign,
\* or NaN.
Finite(v) == [class |-> "finite", val |-> v]
Inf(sign) == [class |-> "inf", val |-> sign]
NaN == [class |-> "nan", val |-> 0]

\* the float64 of the whole number k
whole(k) == Finite(10 * k)

\* a < b and a >= b on float64: every comparison with NaN is false
Less(a, b) ==
    LET ka == IF a.class = "inf" THEN <<a.val, 0>> ELSE <<0, a.val>>
        kb == IF b.class = "inf" THEN <<b.val, 0>> ELSE <<0, b.val>>
    IN  /\ a.class # "nan"
        /\ b.class # "nan"
        /\ (ka[1] < kb[1] \/ (ka[1] = kb[1] /\ ka[2] < kb[2]))
GreaterEq(a, b) == a.class # "nan" /\ b.class # "nan" /\ ~Less(a, b)

\* strconv.ParseFloat(token, 64) on the tokens the lexemes can form.  It
\* accepts "NaN" without a sign, "Inf" with an optional sign, and a decimal
\* floating-point number: an optional sign, digits with at most one point,
\* and an optional exponent "e", optional sign, digits.  Leading and trailing
\* zeros do not change the value; every exponent the lexemes form is zero.
ParseFloat(token) ==
    LET negative == Len(token) >= 1 /\ token[1] = "-"
        body     == IF negative THEN Tail(token) ELSE token
        es       == {k \in 1..Len(body) : body[k] = "e"}
        mantissa == IF es = {} THEN body ELSE SubSeq(body, 1, First(es) - 1)
        exponent == IF es = {} THEN <<>>
                    ELSE SubSeq(body, First(es) + 1, Len(body))
        expDigits == IF Len(exponent) >= 1 /\ exponent[1] = "-"
                     THEN Tail(exponent) ELSE exponent
        pointed  == {k \in 1..Len(mantissa) : mantissa[k] = "0.3"}
        sign     == IF negative THEN -1 ELSE 1
        failed   == [ok |-> FALSE, val |-> Finite(0)]
    IN  IF token = <<"NaN">> THEN [ok |-> TRUE, val |-> NaN]
        ELSE IF body = <<"Inf">> THEN [ok |-> TRUE, val |-> Inf(sign)]
        ELSE IF \/ Len(mantissa) = 0
                \/ \E k \in 1..Len(mantissa) : mantissa[k] \notin {"0", "0.3"}
                \/ Cardinality(pointed) > 1
             THEN failed
        ELSE IF es # {} /\ (\/ Len(expDigits) = 0
                            \/ \E k \in 1..Len(expDigits) : expDigits[k] # "0")
             THEN failed
        ELSE [ok |-> TRUE,
              val |-> Finite(sign * (IF pointed = {} THEN 0 ELSE 3))]

\* the first failing domain check at index i on float64 values, or <<>>
domainErrorFloat(xi, yi, i) ==
    IF Less(xi, whole(minX))
    THEN <<"values in x must not be less than", minX, i, xi>>
    ELSE IF Less(whole(maxX), xi)
    THEN <<"values in x must not be greater than", maxX, i, xi>>
    ELSE IF Less(yi, whole(minY))
    THEN <<"values in y must not be less than", minY, i, yi>>
    ELSE IF Less(whole(maxY), yi)
    THEN <<"values in y must not be greater than", maxY, i, yi>>
    ELSE <<>>

\* newFunctionShape(x, y []float64) (FunctionShape, error), the constructor
\* the parser calls at line 121.  No function of this signature is in the
\* source: it is written from section 4.1 of the specification (lengths
\* differ, empty list, x not strictly increasing, a value outside the
\* domain), with the comparisons and the order of the checks of the int64
\* constructors and the messages the tests of the float64 one expect.  The
\* tests of the float64 constructor build shapes outside [minX, maxX] x
\* [minY, maxY], so whether the constructor of the parser's revision checks
\* the domain is not known: bounded says whether it does.  The shape holds
\* the float64 values as they were handed over; FunctionShape of lines 31-34
\* holds int64, and no conversion is in the source.
newFunctionShape(x, y, bounded) ==
    IF Len(x) # Len(y)
    THEN [shape |-> zeroShape,
          err   |-> <<"Length of x does not match length of y", Len(x), Len(y)>>]
    ELSE IF Len(x) = 0
    THEN [shape |-> zeroShape, err |-> <<"at least one point must be specified">>]
    ELSE
      LET unsorted == {i \in 1..(Len(x) - 1) :
                          GreaterEq(at(x, i - 1), at(x, i))}
          outside  == {i \in 0..(Len(x) - 1) :
                          domainErrorFloat(at(x, i), at(y, i), i) # <<>>}
      IN  IF unsorted # {}
          THEN LET i == First(unsorted)
               IN  [shape |-> zeroShape,
                    err   |-> <<"Values in x must be increasing",
                                i - 1, at(x, i - 1), i, at(x, i)>>]
          ELSE IF bounded /\ outside # {}
          THEN LET i == First(outside)
               IN  [shape |-> zeroShape,
                    err   |-> domainErrorFloat(at(x, i), at(y, i), i)]
          ELSE [shape |-> [x |-> x, y |-> y], err |-> <<>>]

\* the pairs of one point descriptor, or the reason the loop body panics
parsePoint(pointDesc) ==
    LET xy == Split(pointDesc, "=")
    IN  IF Len(xy) # 2 THEN [ok |-> FALSE, x |-> Finite(0), y |-> Finite(0)]
        ELSE LET px == ParseFloat(xy[1])
                 py == ParseFloat(xy[2])
             IN  IF ~px.ok \/ ~py.ok
                 THEN [ok |-> FALSE, x |-> Finite(0), y |-> Finite(0)]
                 ELSE [ok |-> TRUE, x |-> px.val, y |-> py.val]

\* ParseRequestedToCapacityRatioScoringFunctionShape(shapeDesc): the shape, or
\* the value of the panic; bounded is handed to the constructor
ParseRequestedToCapacityRatioScoringFunctionShape(desc, bounded) ==
    LET pointDescs == Split(desc, ",")
        points     == [k \in 1..Len(pointDescs) |-> parsePoint(pointDescs[k])]
    IN  IF \E k \in 1..Len(points) : ~points[k].ok
        THEN [panic |-> TRUE, shape |-> zeroShape,
              value |-> <<"Cannot parse function shape", desc>>]
        ELSE LET x == [k \in 1..Len(points) |-> points[k].x]
                 y == [k \in 1..Len(points) |-> points[k].y]
                 r == newFunctionShape(x, y, bounded)
             IN  IF r.err # <<>>
                 THEN [panic |-> TRUE, shape |-> zeroShape,
                       value |-> <<"Cannot parse function shape; err", desc, r.err>>]
                 ELSE [panic |-> FALSE, shape |-> r.shape, value |-> <<>>]

InitParse ==
    /\ rev = "arrays"
    /\ argX = <<>>
    /\ argY = <<>>
    /\ \E k \in 0..MaxDesc : shapeDesc \in Descriptors(k)
    /\ calls = <<>>
    /\ Untouched

\* the configuration calls the parser with its descriptor; the constructor
\* it reaches checks the domain or does not
CallParseRequestedToCapacityRatioScoringFunctionShape ==
    /\ pc = "start"
    /\ \E bounded \in BOOLEAN :
         LET r == ParseRequestedToCapacityRatioScoringFunctionShape(shapeDesc,
                                                                    bounded)
         IN  /\ shape' = r.shape
             /\ err' = r.value
             /\ outcome' = IF r.panic THEN "panic" ELSE "returned"
    /\ pc' = "done"
    /\ UNCHANGED <<rev, argX, argY, fn, p, requested, allocable, cpuScore,
                   memoryScore, capDivs, result, shapeDesc, volumes, calls,
                   unit>>

NextParse == CallParseRequestedToCapacityRatioScoringFunctionShape

\* one parsing run
SpecParse == InitParse /\ [][NextParse]_vars

(***************************** claims: parsing ******************************)
\* the comma-separated tokens of the descriptor handed to the parser
Tokens == Split(shapeDesc, ",")

\* the text of a token before and after its first "="
Before(token) ==
    SubSeq(token, 1, First({k \in 1..Len(token) : token[k] = "="}) - 1)
After(token) ==
    SubSeq(token, First({k \in 1..Len(token) : token[k] = "="}) + 1, Len(token))

\* the pieces of text that are strings of digits with at most one point
Digits == {"0", "0.3"}
IsDigits(text) ==
    /\ Len(text) >= 1
    /\ \A k \in 1..Len(text) : text[k] \in Digits
    /\ \A j, k \in 1..Len(text) : (text[j] = "0.3" /\ text[k] = "0.3") => j = k

\* the text without a leading "-"
Unsigned(text) ==
    IF Len(text) >= 1 /\ text[1] = "-" THEN SubSeq(text, 2, Len(text)) ELSE text

\* the text is a decimal number in the widest reading: an optional sign, a
\* string of digits with at most one point, and an optional exponent of
\* whole digits with its own optional sign.  "NaN" and "Inf" are not.
IsDecimal(text) ==
    LET u == Unsigned(text)
    IN  \/ IsDigits(u)
        \/ \E k \in 2..(Len(u) - 1) :
             /\ u[k] = "e"
             /\ IsDigits(SubSeq(u, 1, k - 1))
             /\ LET ex == Unsigned(SubSeq(u, k + 1, Len(u)))
                IN  Len(ex) >= 1 /\ \A j \in 1..Len(ex) : ex[j] = "0"

\* the value in tenths of a decimal number of the lexemes: three tenths when
\* the digit 3 occurs before the exponent, zero otherwise, with the sign
DecimalValue(text) ==
    LET u    == Unsigned(text)
        ePos == {k \in 1..Len(u) : u[k] = "e"}
        last == IF ePos = {} THEN Len(u) ELSE First(ePos) - 1
        mag  == IF \E k \in 1..last : u[k] = "0.3" THEN 3 ELSE 0
    IN  IF Len(text) >= 1 /\ text[1] = "-" THEN 0 - mag ELSE mag

\* the token is exactly one pair x=y of decimal numbers
IsPair(token) ==
    /\ Cardinality({k \in 1..Len(token) : token[k] = "="}) = 1
    /\ IsDecimal(Before(token))
    /\ IsDecimal(After(token))

\* the x and the y values of the descriptor in input order (all tokens pairs)
DescX == [k \in 1..Len(Tokens) |-> DecimalValue(Before(Tokens[k]))]
DescY == [k \in 1..Len(Tokens) |-> DecimalValue(After(Tokens[k]))]

\* the float64 values of a sequence of tenths
Floats(s) == [k \in 1..Len(s) |-> Finite(s[k])]

\* the descriptor is one the claim lets the parser accept
WellFormed ==
    /\ \A k \in 1..Len(Tokens) : IsPair(Tokens[k])
    /\ StrictlyIncreasing(DescX)

\* what the claim says of a finished call of the parser
AcceptsOnlyWellFormed ==
    /\ outcome = "returned" =>
           /\ WellFormed
           /\ shape = [x |-> Floats(DescX), y |-> Floats(DescY)]
           /\ err = <<>>
    /\ ~WellFormed =>
           /\ outcome = "panic"
           /\ shape = zeroShape
           /\ Len(err) >= 2
           /\ err[2] = shapeDesc

SpellsNumbersOnly ==
    \A k \in 1..Len(shapeDesc) : shapeDesc[k] \notin {"NaN", "Inf"}

\* what remains of C17 in the code: a descriptor without "NaN" and "Inf" is
\* accepted only when it is well formed, whether or not the constructor
\* checks the domain
NumbersOnlyAcceptedWhenWellFormed ==
    (pc = "done" /\ SpellsNumbersOnly) => AcceptsOnlyWellFormed

(***************************** float revision *******************************)
\* brokenLinearFunction(x, y []float64) func(float64) float64 of the float
\* revision.  The breakpoints and the arguments of the runs are whole numbers;
\* a float64 result is held as the exact rational <<numerator, denominator>>
\* it rounds, which is closer to it than any tolerance of the package's tests.

\* the value returned at index i > 0 with xx[i-1] < q <= xx[i]
segmentFloat(y0, y1, x0, x1, q) ==
    Rat(y0 * (q - x0) + (y1 - y0) * (x1 - x0), q - x0)

\* the loop of the closure from index i on
RECURSIVE scanFloat(_, _, _, _)
scanFloat(xx, yy, q, i) ==
    IF i >= Len(xx) THEN <<at(yy, Len(xx) - 1), 1>>
    ELSE IF q <= at(xx, i)
    THEN IF i = 0 THEN <<at(yy, 0), 1>>
         ELSE segmentFloat(at(yy, i - 1), at(yy, i), at(xx, i - 1), at(xx, i), q)
    ELSE scanFloat(xx, yy, q, i + 1)

\* brokenLinearFunction(x, y): the value of the panic, or the copies xx and yy
\* the closure captures
brokenLinearFunctionFloat(x, y) ==
    IF Len(x) # Len(y)
    THEN [panic |-> TRUE, xx |-> <<>>, yy |-> <<>>,
          value |-> <<"Length of x does not match length of y", Len(x), Len(y)>>]
    ELSE
      LET unsorted == {i \in 1..(Len(x) - 1) : at(x, i - 1) >= at(x, i)}
      IN  IF unsorted # {}
          THEN LET i == First(unsorted)
               IN  [panic |-> TRUE, xx |-> <<>>, yy |-> <<>>,
                    value |-> <<"Values in x must be increasing",
                                i - 1, at(x, i - 1), i, at(x, i)>>]
          ELSE [panic |-> FALSE, xx |-> x, yy |-> y, value |-> <<>>]

\* the closure called with q; with no breakpoint yy[n-1] is out of range
closureFloat(f, q) ==
    IF Len(f.xx) = 0 THEN Panic ELSE Returned(scanFloat(f.xx, f.yy, q, 0))

\* breakpoints and arguments of the float runs
XFloat == {100, 150, 200}
YFloat == {2000, 2500, 3000}
PFloat == {-500, 0, 99, 100, 101, 125, 150, 199, 200, 201, 500}

InitFloat ==
    /\ rev = "float"
    /\ \E k \in 0..MaxLen, l \in 0..MaxLen :
         /\ argX \in SeqsOfLen(XFloat, k)
         /\ argY \in SeqsOfLen(YFloat, l)
    /\ shapeDesc = <<>>
    /\ calls = <<>>
    /\ Untouched

\* function := brokenLinearFunction(x, y)
CallBrokenLinearFunctionFloat ==
    /\ pc = "start"
    /\ LET f == brokenLinearFunctionFloat(argX, argY)
       IN  /\ fn' = [x |-> f.xx, y |-> f.yy]
           /\ err' = f.value
           /\ pc' = IF f.panic THEN "panicked" ELSE "built"
    /\ UNCHANGED <<rev, argX, argY, shape, p, requested, allocable, cpuScore,
                   memoryScore, capDivs, result, outcome, shapeDesc, volumes,
                   calls, unit>>

\* function(q)
CallClosureFloat ==
    /\ pc = "built"
    /\ \E q \in PFloat :
         LET r == closureFloat([xx |-> fn.x, yy |-> fn.y], q)
         IN  /\ p' = q
             /\ result' = r.val
             /\ outcome' = IF r.panic THEN "panic" ELSE "returned"
    /\ pc' = "done"
    /\ UNCHANGED <<rev, argX, argY, shape, err, fn, requested, allocable,
                   cpuScore, memoryScore, capDivs, shapeDesc, volumes, calls,
                   unit>>

NextFloat ==
    \/ CallBrokenLinearFunctionFloat
    \/ CallClosureFloat

\* one run of the float revision: build, evaluate
SpecFloat == InitFloat /\ [][NextFloat]_vars

(***************************** claims: float interpolation ******************)
\* the rationals a and b differ by at most one tenth
WithinTenth(a, b) == 10 * Abs(a[1] * b[2] - b[1] * a[2]) <= a[2] * b[2]

\* the linear interpolation between the breakpoints i-1 and i at q
interpolationFloat(i, q) ==
    Rat(at(fn.y, i - 1) * (at(fn.x, i) - at(fn.x, i - 1))
          + (at(fn.y, i) - at(fn.y, i - 1)) * (q - at(fn.x, i - 1)),
        at(fn.x, i) - at(fn.x, i - 1))

\* C18: for x and y of one length with x strictly increasing, the function
\* returned by brokenLinearFunction(x, y), evaluated at p with
\* x[i-1] < p < x[i], returns y[i-1] + (y[i]-y[i-1])*(p-x[i-1])/(x[i]-x[i-1])
\* within 0.1: 2010 at p = 101 and 2990 at p = 199 for x = [100, 200],
\* y = [2000, 3000].
C18_FloatInterpolatesBetweenBreakpoints ==
    (pc = "done" /\ rev = "float") =>
        \A i \in 1..(Len(fn.x) - 1) :
            (at(fn.x, i - 1) < p /\ p < at(fn.x, i)) =>
                /\ outcome = "returned"
                /\ WithinTenth(result, interpolationFloat(i, p))

(***************************** claims: monotonicity *************************)
\* the y values of the constructed shape never rise / never fall
NonIncreasingY == \A i \in 0..(n - 2) : at(ys, i) >= at(ys, i + 1)
NonDecreasingY == \A i \in 0..(n - 2) : at(ys, i) <= at(ys, i + 1)

\* a <= b when the curve falls, a >= b when it rises
Follows(a, b) ==
    /\ NonIncreasingY => a <= b
    /\ NonDecreasingY => a >= b

\* small capacities, every requested amount of which is compared
SmallCapacities == {1, 7, 9}

\* the requested amounts the call made is compared with: those of the runs,
\* the capacity, one above it and, on a small capacity, every amount
Alternatives(capacity) ==
    RequestedIn \cup {capacity, capacity + 1}
        \cup (IF capacity <= 10 THEN 0..10 ELSE {})

\* the per-dimension score of req on capacity
dimensionScore(req, capacity) ==
    resourceScoringFunction(rev, fn, req, capacity).out.val

\* the node score with the CPU request, or the memory request, replaced
nodeScoreWithCpu(req) ==
    scorer(rev, fn, [requested EXCEPT !.MilliCPU = req], allocable).out.val
nodeScoreWithMemory(req) ==
    scorer(rev, fn, [requested EXCEPT !.Memory = req], allocable).out.val

\* on amounts far below the int64 range the scores follow the curve: for a
\* shape whose y values never rise, the per-dimension score and the node score
\* never rise when requested grows on a fixed capacity above 0, and for a
\* shape whose y values never fall they never fall
FollowsBelowOverflow ==
    /\ pc = "scorer" =>
           \A capacity \in SmallCapacities :
               \A r1 \in 0..(capacity + 2) : \A r2 \in r1..(capacity + 2) :
                   Follows(dimensionScore(r2, capacity), dimensionScore(r1, capacity))
    /\ (pc = "done" /\ outcome = "returned") =>
           /\ allocable.MilliCPU > 0 =>
                  \A r2 \in Alternatives(allocable.MilliCPU) :
                      r2 >= requested.MilliCPU =>
                          /\ Follows(dimensionScore(r2, allocable.MilliCPU), cpuScore)
                          /\ Follows(nodeScoreWithCpu(r2), result)
           /\ allocable.Memory > 0 =>
                  \A r2 \in Alternatives(allocable.Memory) :
                      r2 >= requested.Memory =>
                          /\ Follows(dimensionScore(r2, allocable.Memory), memoryScore)
                          /\ Follows(nodeScoreWithMemory(r2), result)

(***************************** wide runs ************************************)
\* the shapes of the wide runs
InitWide == InitWith(XConcurrent, YConcurrent)

NextWide ==
    \/ CallNewFunctionShape
    \/ CallNewFunctionShapePoints
    \/ CallBuildRequestedToCapacityRatioScorerFunction
    \/ CallScorerWide

\* one scoring run with wide amounts
SpecWide == InitWide /\ [][NextWide]_vars

(***************************** claims: monotonicity, all amounts ************)
\* the per-dimension score of the wide amount req on capacity
dimensionScoreWide(req, capacity) ==
    resourceScoringFunctionWide(rev, fn, req, capacity).out.val

\* the node score of the wide call made with its CPU request replaced
nodeScoreWideWithCpu(req) ==
    scorerWide(rev, fn, [requested EXCEPT !.MilliCPU = req], allocable).out.val

\* C19: for an accepted shape whose y values never rise and any fixed
\* capacity above 0, neither the per-dimension score nor the node score rises
\* when requested grows from 0 up to and beyond the capacity; for a shape
\* whose y values never fall the scores never fall.
C19_ScoresFollowTheCurve ==
    (pc = "done" /\ outcome = "returned" /\ allocable.MilliCPU > 0) =>
        \A r2 \in WideIn :
            r2 >= requested.MilliCPU =>
                /\ Follows(dimensionScoreWide(r2, allocable.MilliCPU), cpuScore)
                /\ Follows(nodeScoreWideWithCpu(r2), result)

(***************************** claims: overflow *****************************)
\* 100 - floor(100*(capacity-requested)/capacity), computed without overflow
\* (the unit cancels)
positionExact(req, capacity) == 100 - ((100 * (capacity - req)) \div capacity)

\* the position of a dimension is in [0, 100] and is the exact one
PositionRight(req, capacity) ==
    (capacity > 0 /\ 0 <= req /\ req <= capacity) =>
        /\ 0 <= positionWide(req, capacity)
        /\ positionWide(req, capacity) <= 100
        /\ positionWide(req, capacity) = positionExact(req, capacity)

\* C20: for all int64 requested and capacity with capacity > 0 and
\* 0 <= requested <= capacity, the position
\* maxX - (capacity-requested)*maxX/capacity computed in wrapping int64
\* arithmetic lies in [0, 100] and equals
\* 100 - floor(100*(capacity-requested)/capacity), also when
\* (capacity-requested)*100 exceeds the int64 range.
C20_PositionSurvivesOverflow ==
    pc = "done" =>
        /\ PositionRight(requested.MilliCPU, allocable.MilliCPU)
        /\ PositionRight(requested.Memory, allocable.Memory)

====
